---------------------------- MODULE Spec2Model ----------------------------
(***************************************************************************)
(* Model of src/src/config.rs: the Config aggregate, its loader            *)
(* (Config::from_file), the merge of command-line arguments                *)
(* (Config::apply_args, set_version, set_dirs) and Config::validate.       *)
(*                                                                         *)
(* Only the fields the operations read or write are kept in the Config     *)
(* record: env.*, prepare.codesign.skip_sign, package.installer.skip_sign, *)
(* package.updater.{skip_sign, private_key} and obs_version.*.  The other  *)
(* fields (copy rules, package lists, zip options, post options, ...) are  *)
(* never touched by any method of impl Config.                             *)
(*                                                                         *)
(* Strings that the code takes apart (the version string) are sequences    *)
(* of one-character strings; paths and branch names, which the code only   *)
(* copies or hands to the file system, are TLA+ strings.                   *)
(***************************************************************************)
EXTENDS Integers, Sequences, FiniteSets, TLC

VARIABLES
    cfg,        \* the Config value of the run
    phase,      \* "Start", "Loaded", "Merged", "Validated", "Failed", "Aborted"
    pre,        \* cfg as it was before the last operation
    last,       \* the last operation: its name, inputs, result and calls made
                \* (a record of the run, read by no operation)
    fs,         \* file system: path -> what the entry resolves to
    envvar,     \* state of the UPDATER_PRIVATE_KEY environment variable
    onpath      \* the tools an executable-search-path lookup finds

vars == <<cfg, phase, pre, last, fs, envvar, onpath>>

---------------------------------------------------------------------------
(* Bounds                                                                  *)

MaxNum == 2       \* largest beta / rc number on the command line and in version strings

---------------------------------------------------------------------------
(* Option<T>: None is the empty sequence, Some(x) a one-element sequence.  *)

None == <<>>
Some(x) == <<x>>
IsSome(o) == Len(o) = 1
Unwrap(o) == o[1]
\* Option::unwrap_or_default for Option<u8>
unwrap_or_default(o) == IF IsSome(o) THEN Unwrap(o) ELSE 0

---------------------------------------------------------------------------
(* Character-sequence helpers used by the version handling.                *)

Digits == <<"0", "1", "2", "3", "4", "5", "6", "7", "8", "9">>
IsDigit(c) == \E i \in 1..10 : Digits[i] = c
DigitVal(c) == (CHOOSE i \in 1..10 : Digits[i] = c) - 1

\* decimal rendering of 0..99
NumStr(n) == IF n < 10 THEN <<Digits[n + 1]>>
             ELSE <<Digits[(n \div 10) + 1], Digits[(n % 10) + 1]>>

\* index of the first occurrence of c in s, 0 when there is none
IndexOf(s, c) ==
    IF \E i \in 1..Len(s) : s[i] = c
    THEN CHOOSE i \in 1..Len(s) : s[i] = c /\ \A j \in 1..(i - 1) : s[j] # c
    ELSE 0

\* s.split(c).next().unwrap(): everything before the first c
BeforeFirst(s, c) ==
    IF IndexOf(s, c) = 0 THEN s ELSE SubSeq(s, 1, IndexOf(s, c) - 1)

\* everything after the first c (used only when s contains c)
AfterFirst(s, c) == SubSeq(s, IndexOf(s, c) + 1, Len(s))

RECURSIVE SplitAll(_, _)
SplitAll(s, c) ==
    IF IndexOf(s, c) = 0 THEN <<s>>
    ELSE <<BeforeFirst(s, c)>> \o SplitAll(AfterFirst(s, c), c)

StartsWith(s, p) == Len(s) >= Len(p) /\ SubSeq(s, 1, Len(p)) = p

U8Max == 255

RECURSIVE DecVal(_)
DecVal(s) == IF s = <<>> THEN 0
             ELSE 10 * DecVal(SubSeq(s, 1, Len(s) - 1)) + DigitVal(s[Len(s)])

\* str::parse::<u8>: -1 stands for a parse error
ParseU8(s) ==
    IF s = <<>> \/ (\E i \in 1..Len(s) : ~IsDigit(s[i])) \/ Len(s) > 3 THEN -1
    ELSE IF DecVal(s) > U8Max THEN -1 ELSE DecVal(s)

Beta == <<"b", "e", "t", "a">>
Rc == <<"r", "c">>

\* misc::parse_version: (major, minor, patch, beta, rc), or ok = FALSE when
\* the triple cannot be parsed or the qualifier keyword is not recognised.
parse_version(version_string) ==
    LET left  == BeforeFirst(version_string, "-")
        hasq  == IndexOf(version_string, "-") # 0
        right == AfterFirst(version_string, "-")
        parts == SplitAll(left, ".")
        nums  == [i \in 1..Len(parts) |-> ParseU8(parts[i])]
        isb   == hasq /\ StartsWith(right, Beta)
        isr   == hasq /\ StartsWith(right, Rc)
        qnum  == IF isb THEN ParseU8(SubSeq(right, Len(Beta) + 1, Len(right)))
                 ELSE IF isr THEN ParseU8(SubSeq(right, Len(Rc) + 1, Len(right)))
                 ELSE 0
        ok    == /\ Len(parts) = 3
                 /\ \A i \in 1..Len(parts) : nums[i] >= 0
                 /\ (hasq => (isb \/ isr) /\ qnum >= 0)
    IN IF ok
       THEN [ok |-> TRUE, v |-> <<nums[1], nums[2], nums[3],
                                  IF isb THEN qnum ELSE 0,
                                  IF isr THEN qnum ELSE 0>>]
       ELSE [ok |-> FALSE, v |-> <<0, 0, 0, 0, 0>>]

---------------------------------------------------------------------------
(* The Config aggregate and its defaults.                                  *)

\* fn get_default_branch
get_default_branch == "stable"

\* #[derive(Default)] for ObsVersion
ObsVersion_default ==
    [version_str |-> <<>>, version_major |-> 0, version_minor |-> 0,
     version_patch |-> 0, beta |-> 0, rc |-> 0]

\* #[derive(Default)] for EnvOptions: every field is T::default(), the
\* branch included (String::default() is the empty string).
EnvOptions_default ==
    [branch |-> "", input_dir |-> "", output_dir |-> "", previous_dir |-> "",
     sevenzip_path |-> "", makensis_path |-> "", pandoc_path |-> "",
     pdbcopy_path |-> ""]

CodesignOptions_default == [skip_sign |-> FALSE]
PreparationOptions_default == [codesign |-> CodesignOptions_default]
InstallerOptions_default == [skip_sign |-> FALSE]
UpdaterOptions_default == [skip_sign |-> FALSE, private_key |-> ""]
PackageOptions_default ==
    [installer |-> InstallerOptions_default, updater |-> UpdaterOptions_default]

\* #[derive(Default)] for Config
Config_default ==
    [env |-> EnvOptions_default,
     prepare |-> PreparationOptions_default,
     package |-> PackageOptions_default,
     obs_version |-> ObsVersion_default]


---------------------------------------------------------------------------
(* Config::from_file: the file is read and handed to the serde-derived     *)
(* deserialisers.  A parsed TOML table is a record of Options: None for a  *)
(* key that is absent from the table, Some(v) for a key that is present.   *)

\* container-level #[serde(default)]: a missing field is taken from the
\* container's own Default::default() value
FieldOr(t, f, dflt) == IF IsSome(t[f]) THEN Unwrap(t[f]) ELSE dflt[f]

Deserialize_ObsVersion(t) ==
    [f \in DOMAIN ObsVersion_default |-> FieldOr(t, f, ObsVersion_default)]

\* EnvOptions: container default for every field, except that branch
\* carries #[serde(default = "get_default_branch")], which replaces the
\* container default for that field when the table lacks the key.
Deserialize_EnvOptions(t) ==
    [f \in DOMAIN EnvOptions_default |->
        IF f = "branch"
        THEN (IF IsSome(t[f]) THEN Unwrap(t[f]) ELSE get_default_branch)
        ELSE FieldOr(t, f, EnvOptions_default)]

Deserialize_CodesignOptions(t) ==
    [f \in DOMAIN CodesignOptions_default |-> FieldOr(t, f, CodesignOptions_default)]

Deserialize_PreparationOptions(t) ==
    [codesign |-> IF IsSome(t.codesign)
                  THEN Deserialize_CodesignOptions(Unwrap(t.codesign))
                  ELSE PreparationOptions_default.codesign]

Deserialize_InstallerOptions(t) ==
    [f \in DOMAIN InstallerOptions_default |-> FieldOr(t, f, InstallerOptions_default)]

Deserialize_UpdaterOptions(t) ==
    [f \in DOMAIN UpdaterOptions_default |-> FieldOr(t, f, UpdaterOptions_default)]

Deserialize_PackageOptions(t) ==
    [installer |-> IF IsSome(t.installer)
                   THEN Deserialize_InstallerOptions(Unwrap(t.installer))
                   ELSE PackageOptions_default.installer,
     updater   |-> IF IsSome(t.updater)
                   THEN Deserialize_UpdaterOptions(Unwrap(t.updater))
                   ELSE PackageOptions_default.updater]

\* Config: #[serde(default)] on the container, no field-level attribute:
\* a section missing from the file is Config::default()'s section.
Deserialize_Config(doc) ==
    [env         |-> IF IsSome(doc.env)
                     THEN Deserialize_EnvOptions(Unwrap(doc.env))
                     ELSE Config_default.env,
     prepare     |-> IF IsSome(doc.prepare)
                     THEN Deserialize_PreparationOptions(Unwrap(doc.prepare))
                     ELSE Config_default.prepare,
     package     |-> IF IsSome(doc.package)
                     THEN Deserialize_PackageOptions(Unwrap(doc.package))
                     ELSE Config_default.package,
     obs_version |-> IF IsSome(doc.obs_version)
                     THEN Deserialize_ObsVersion(Unwrap(doc.obs_version))
                     ELSE Config_default.obs_version]

\* A file is unreadable, not valid for the schema, or a TOML document.
\* read_to_string(..).ok().and_then(from_str(..).ok()); panic on None.
from_file(file) ==
    IF file.kind = "toml"
    THEN [ok |-> TRUE, config |-> Deserialize_Config(file.doc)]
    ELSE [ok |-> FALSE, config |-> Config_default]

---------------------------------------------------------------------------
(* Config::set_version and Config::apply_args                              *)

set_version(self, version_string, beta_num, rc_num) ==
    LET ver_parsed == parse_version(version_string).v
    IN [self EXCEPT
          !.obs_version.version_str   = BeforeFirst(version_string, "-"),
          !.obs_version.version_major = ver_parsed[1],
          !.obs_version.version_minor = ver_parsed[2],
          !.obs_version.version_patch = ver_parsed[3],
          !.obs_version.beta = IF beta_num > 0 THEN beta_num ELSE ver_parsed[4],
          !.obs_version.rc   = IF rc_num > 0 THEN rc_num ELSE ver_parsed[5]]

apply_args_NoFieldOverride(self, args) ==
    LET s1 == set_version(self, args.version,
                          unwrap_or_default(args.beta), unwrap_or_default(args.rc))
    IN [s1 EXCEPT
          !.env.input_dir    = IF IsSome(args.new) THEN Unwrap(args.new) ELSE @,
          !.env.output_dir   = IF IsSome(args.out) THEN Unwrap(args.out) ELSE @,
          !.env.previous_dir = IF IsSome(args.old) THEN Unwrap(args.old) ELSE @,
          !.env.branch       = IF IsSome(args.branch) THEN Unwrap(args.branch) ELSE @,
          !.prepare.codesign.skip_sign  = args.skip_codesigning,
          !.package.installer.skip_sign = args.skip_codesigning,
          !.package.updater.skip_sign   = ~args.skip_manifest_signing]

apply_args_DirectPolarity(self, args) ==
    LET s1 == set_version(self, args.version,
                          unwrap_or_default(args.beta), unwrap_or_default(args.rc))
    IN [s1 EXCEPT
          !.env.input_dir    = IF IsSome(args.new) THEN Unwrap(args.new) ELSE @,
          !.env.output_dir   = IF IsSome(args.out) THEN Unwrap(args.out) ELSE @,
          !.env.previous_dir = IF IsSome(args.old) THEN Unwrap(args.old) ELSE @,
          !.env.branch       = IF IsSome(args.branch) THEN Unwrap(args.branch) ELSE @,
          !.obs_version.beta = IF IsSome(args.beta) THEN Unwrap(args.beta) ELSE @,
          !.obs_version.rc   = IF IsSome(args.rc) THEN Unwrap(args.rc) ELSE @,
          !.prepare.codesign.skip_sign  = args.skip_codesigning,
          !.package.installer.skip_sign = args.skip_codesigning,
          !.package.updater.skip_sign   = args.skip_manifest_signing]

apply_args_InstallerKeepsFile(self, args) ==
    LET s1 == set_version(self, args.version,
                          unwrap_or_default(args.beta), unwrap_or_default(args.rc))
    IN [s1 EXCEPT
          !.env.input_dir    = IF IsSome(args.new) THEN Unwrap(args.new) ELSE @,
          !.env.output_dir   = IF IsSome(args.out) THEN Unwrap(args.out) ELSE @,
          !.env.previous_dir = IF IsSome(args.old) THEN Unwrap(args.old) ELSE @,
          !.env.branch       = IF IsSome(args.branch) THEN Unwrap(args.branch) ELSE @,
          !.obs_version.beta = IF IsSome(args.beta) THEN Unwrap(args.beta) ELSE @,
          !.obs_version.rc   = IF IsSome(args.rc) THEN Unwrap(args.rc) ELSE @,
          !.prepare.codesign.skip_sign  = args.skip_codesigning,
          !.package.updater.skip_sign   = ~args.skip_manifest_signing]

\* The arguments apply_args reads: version, beta, rc, branch, new, old, out,
\* skip_codesigning, skip_manifest_signing.  (config, note_file,
\* private_key, skip_installer, skip_patches and clear_output are not
\* read: "Todo remaining args".)
apply_args(self, args) ==
    LET s1 == set_version(self, args.version,
                          unwrap_or_default(args.beta), unwrap_or_default(args.rc))
    IN [s1 EXCEPT
          !.env.input_dir    = IF IsSome(args.new) THEN Unwrap(args.new) ELSE @,
          !.env.output_dir   = IF IsSome(args.out) THEN Unwrap(args.out) ELSE @,
          !.env.previous_dir = IF IsSome(args.old) THEN Unwrap(args.old) ELSE @,
          !.env.branch       = IF IsSome(args.branch) THEN Unwrap(args.branch) ELSE @,
          !.obs_version.beta = IF IsSome(args.beta) THEN Unwrap(args.beta) ELSE @,
          !.obs_version.rc   = IF IsSome(args.rc) THEN Unwrap(args.rc) ELSE @,
          !.prepare.codesign.skip_sign  = args.skip_codesigning,
          !.package.installer.skip_sign = args.skip_codesigning,
          !.package.updater.skip_sign   = ~args.skip_manifest_signing]

---------------------------------------------------------------------------
(* The environment validate looks at.                                      *)

Tools == {"pdbcopy", "makensis", "sevenzip", "pandoc"}

\* where a search-path lookup finds a tool (an absolute path)
WhichPath ==
    [pdbcopy |-> "/bin/pdbcopy", makensis |-> "/bin/makensis",
     sevenzip |-> "/bin/7z", pandoc |-> "/bin/pandoc"]

\* the paths the file system is asked about, apart from WhichPath's
DiskPaths == {"new", "old", "/srv/obs", "key.pem"}
NoEntry == "<no entry>"

\* fs[p] = p: p names an entry by its canonical path; fs[p] = q # p: p is a
\* symbolic link or a relative name for q; fs[p] = NoEntry: nothing there.
RECURSIVE Resolve(_, _)
Resolve(p, fuel) ==
    IF fuel = 0 \/ fs[p] = NoEntry THEN NoEntry
    ELSE IF fs[p] = p THEN p
    ELSE Resolve(fs[p], fuel - 1)

\* std::fs::canonicalize: the absolute, link-free form of an existing
\* path; an error for a missing entry, a dangling link or a link loop
canonicalize(p) ==
    IF p \in DiskPaths
    THEN LET r == Resolve(p, Cardinality(DiskPaths))
         IN [ok |-> r # NoEntry, path |-> r]
    ELSE IF \E t \in Tools : WhichPath[t] = p /\ t \in onpath
    THEN [ok |-> TRUE, path |-> p]
    ELSE [ok |-> FALSE, path |-> NoEntry]

\* std::fs::metadata follows links: Ok exactly when the path resolves
metadata_ok(p) == canonicalize(p).ok

\* std::env::var("UPDATER_PRIVATE_KEY"): Err when the variable is not set
\* (VarError::NotPresent) and when its value is not valid Unicode
\* (VarError::NotUnicode)
EnvVarStates == {"unset", "unicode", "not_unicode"}
env_var_is_err == envvar # "unicode"

\* misc::check_binary_path(&mut path): an empty path is looked up on the
\* search path, a configured one is resolved; the field is rewritten on
\* success and left alone on failure.
check_binary_path(path, tool) ==
    IF path = ""
    THEN (IF tool \in onpath
          THEN [ok |-> TRUE, path |-> WhichPath[tool]]
          ELSE [ok |-> FALSE, path |-> path])
    ELSE (IF canonicalize(path).ok
          THEN [ok |-> TRUE, path |-> canonicalize(path).path]
          ELSE [ok |-> FALSE, path |-> path])

---------------------------------------------------------------------------
(* Config::validate.  A run of validate is folded over its checks: s.err   *)
(* is "" while no check has failed, and a check that finds s.err set does  *)
(* nothing (the `?` and the `return Err(..)` left the function).  s.calls  *)
(* lists the library calls made, in order.                                 *)

Ok == "Ok"
BinaryNotFound ==
    [pdbcopy |-> "Binary not found: pdbcopy", makensis |-> "Binary not found: makensis",
     sevenzip |-> "Binary not found: sevenzip", pandoc |-> "Binary not found: pandoc"]
PrivateKeyNotFound == "Private key not found"
InputDirError == "Input dir error"
PreviousDirError == "Previous dir error"

ToolField ==
    [pdbcopy |-> "pdbcopy_path", makensis |-> "makensis_path",
     sevenzip |-> "sevenzip_path", pandoc |-> "pandoc_path"]

\* misc::check_binary_path(&mut self.env.<tool>_path)?;
BinaryCheck(s, tool) ==
    IF s.err # "" THEN s
    ELSE LET r == check_binary_path(s.cfg.env[ToolField[tool]], tool)
         IN [cfg   |-> [s.cfg EXCEPT !.env[ToolField[tool]] = r.path],
             err   |-> IF r.ok THEN "" ELSE BinaryNotFound[tool],
             calls |-> Append(s.calls, ToolField[tool])]

BinaryChecks(s) ==
    BinaryCheck(BinaryCheck(BinaryCheck(BinaryCheck(s,
        "pdbcopy"), "makensis"), "sevenzip"), "pandoc")

SigningKeyCheck_IgnoresEnvVar(s) ==
    IF s.err # "" THEN s
    ELSE IF ~s.cfg.package.updater.skip_sign
    THEN [s EXCEPT
            !.err   = IF metadata_ok(s.cfg.package.updater.private_key)
                      THEN "" ELSE PrivateKeyNotFound,
            !.calls = s.calls \o <<"env::var", "fs::metadata">>]
    ELSE s

\* if !skip_sign { if env::var(..).is_err() { if let Err(e) = fs::metadata(..) { return Err } } }
SigningKeyCheck(s) ==
    IF s.err # "" THEN s
    ELSE IF ~s.cfg.package.updater.skip_sign
    THEN (IF env_var_is_err
          THEN [s EXCEPT
                  !.err   = IF metadata_ok(s.cfg.package.updater.private_key)
                            THEN "" ELSE PrivateKeyNotFound,
                  !.calls = s.calls \o <<"env::var", "fs::metadata">>]
          ELSE [s EXCEPT !.calls = Append(s.calls, "env::var")])
    ELSE s

\* if !self.prepare.codesign.skip_sign { /* ToDo */ }
CodesignCheck(s) == s

\* match fs::canonicalize(&self.env.input_dir) { Ok => assign, Err => return }
InputDirCheck(s) ==
    IF s.err # "" THEN s
    ELSE LET r == canonicalize(s.cfg.env.input_dir)
         IN [cfg   |-> IF r.ok THEN [s.cfg EXCEPT !.env.input_dir = r.path] ELSE s.cfg,
             err   |-> IF r.ok THEN "" ELSE InputDirError,
             calls |-> Append(s.calls, "canonicalize input_dir")]

PreviousDirCheck(s) ==
    IF s.err # "" THEN s
    ELSE LET r == canonicalize(s.cfg.env.previous_dir)
         IN [cfg   |-> IF r.ok THEN [s.cfg EXCEPT !.env.previous_dir = r.path] ELSE s.cfg,
             err   |-> IF r.ok THEN "" ELSE PreviousDirError,
             calls |-> Append(s.calls, "canonicalize previous_dir")]

DirectoryChecks_Swapped(s) ==
    IF s.err # "" THEN s
    ELSE LET ri == canonicalize(s.cfg.env.input_dir)
             rp == canonicalize(s.cfg.env.previous_dir)
         IN IF ~ri.ok THEN [s EXCEPT !.err = InputDirError,
                                     !.calls = Append(s.calls, "canonicalize input_dir")]
            ELSE [cfg   |-> IF rp.ok
                            THEN [s.cfg EXCEPT !.env.input_dir = rp.path,
                                               !.env.previous_dir = ri.path]
                            ELSE [s.cfg EXCEPT !.env.input_dir = ri.path],
                  err   |-> IF rp.ok THEN "" ELSE PreviousDirError,
                  calls |-> s.calls \o <<"canonicalize input_dir",
                                         "canonicalize previous_dir">>]

DirectoryChecks_AlsoOutput(s) ==
    LET t == PreviousDirCheck(InputDirCheck(s))
        r == canonicalize(t.cfg.env.output_dir)
    IN IF t.err = "" /\ r.ok
       THEN [t EXCEPT !.cfg.env.output_dir = r.path] ELSE t

DirectoryChecks_AllOrNothing(s) ==
    LET t == PreviousDirCheck(InputDirCheck(s))
    IN IF t.err = "" THEN t ELSE [t EXCEPT !.cfg = s.cfg]

DirectoryChecks(s) == PreviousDirCheck(InputDirCheck(s))

validate_DirsBeforeKey(self, check_binaries, check_paths) ==
    LET s0 == [cfg |-> self, err |-> "", calls |-> <<>>]
        s1 == IF check_binaries THEN BinaryChecks(s0) ELSE s0
        s2 == IF check_paths THEN DirectoryChecks(s1) ELSE s1
        s3 == CodesignCheck(SigningKeyCheck(s2))
    IN [cfg |-> s3.cfg, result |-> IF s3.err = "" THEN Ok ELSE s3.err,
        calls |-> s3.calls]

validate(self, check_binaries, check_paths) ==
    LET s0 == [cfg |-> self, err |-> "", calls |-> <<>>]
        s1 == IF check_binaries THEN BinaryChecks(s0) ELSE s0
        s2 == SigningKeyCheck(s1)
        s3 == CodesignCheck(s2)
        s4 == IF check_paths THEN DirectoryChecks(s3) ELSE s3
    IN [cfg |-> s4.cfg, result |-> IF s4.err = "" THEN Ok ELSE s4.err,
        calls |-> s4.calls]

---------------------------------------------------------------------------
(* Inputs: configuration files and command lines.                          *)

NoKeys(dflt) == [f \in DOMAIN dflt |-> None]
EmptyDoc == [env |-> None, prepare |-> None, package |-> None, obs_version |-> None]

Unreadable == [kind |-> "unreadable", doc |-> EmptyDoc]
Invalid == [kind |-> "invalid", doc |-> EmptyDoc]
NoFile == [kind |-> "none", doc |-> EmptyDoc]
Toml(doc) == [kind |-> "toml", doc |-> doc]

Core1 == <<"1", ".", "0", ".", "0">>
Core2 == <<"2", ".", "1", "0", ".", "3">>
Qualifiers ==
    {<<>>} \cup {<<"-">> \o Beta \o NumStr(n) : n \in 1..MaxNum}
           \cup {<<"-">> \o Rc \o NumStr(n) : n \in 1..MaxNum}
WellFormed == {c \o q : c \in {Core1, Core2}, q \in Qualifiers}
Malformed == {<<"1", ".", "0">>, Core1 \o <<"-", "a", "l", "p", "h", "a", "1">>}
VersionStrings == WellFormed \cup Malformed

OptNum == {None} \cup {Some(n) : n \in 0..MaxNum}

NoArgs ==
    [version |-> <<>>, beta |-> None, rc |-> None, branch |-> None,
     new |-> None, old |-> None, out |-> None,
     skip_codesigning |-> FALSE, skip_manifest_signing |-> FALSE]

\* files and command lines of the merge specification
EnvTablesM ==
    {[NoKeys(EnvOptions_default) EXCEPT !.input_dir = Some("new")],
     [NoKeys(EnvOptions_default) EXCEPT !.branch = Some("nightly"),
                                        !.output_dir = Some("old")]}
PackageTablesM ==
    {[installer |-> Some([skip_sign |-> Some(i)]),
      updater   |-> Some([skip_sign |-> Some(u), private_key |-> None])]
       : i \in BOOLEAN, u \in BOOLEAN}
PrepareTablesM == {[codesign |-> Some([skip_sign |-> Some(TRUE)])]}
ObsVersionTablesM ==
    {[NoKeys(ObsVersion_default) EXCEPT !.beta = Some(1), !.rc = Some(1)]}

Opt(S) == {None} \cup {Some(x) : x \in S}

FilesM ==
    {Unreadable, Invalid} \cup
    {Toml(d) : d \in [env : Opt(EnvTablesM), prepare : Opt(PrepareTablesM),
                      package : Opt(PackageTablesM),
                      obs_version : Opt(ObsVersionTablesM)]}

ArgsM ==
    {[NoArgs EXCEPT !.version = v, !.beta = b, !.rc = r, !.branch = d[1],
                    !.new = d[2], !.old = d[3], !.out = d[4],
                    !.skip_codesigning = c, !.skip_manifest_signing = m]
       : v \in VersionStrings, b \in OptNum, r \in OptNum,
         d \in {<<None, None, None, None>>,
                <<Some("beta"), Some("/srv/obs"), Some("old"), Some("new")>>},
         c \in BOOLEAN, m \in BOOLEAN}

\* files and command lines of the validation specification
FilesV ==
    {Unreadable,
     Toml(EmptyDoc),
     Toml([EmptyDoc EXCEPT
        !.env = Some([NoKeys(EnvOptions_default) EXCEPT
                        !.input_dir = Some("/srv/obs"),
                        !.output_dir = Some("old"),
                        !.previous_dir = Some("/srv/obs"),
                        !.makensis_path = Some("new")]),
        !.package = Some([installer |-> None,
                          updater |-> Some([skip_sign |-> None,
                                            private_key |-> Some("key.pem")])])])}

ArgsV ==
    {[NoArgs EXCEPT !.version = Core1, !.new = n, !.old = o,
                    !.skip_codesigning = c, !.skip_manifest_signing = m]
       : n \in Opt({"new"}), o \in Opt({"old"}), c \in BOOLEAN, m \in BOOLEAN}

FsStates ==
    {f \in [DiskPaths -> DiskPaths \cup {NoEntry}] :
        /\ f["key.pem"] \in {"key.pem", NoEntry}
        /\ \A p \in DiskPaths \ {"key.pem"} : f[p] # "key.pem"}

OnPathStates == {Tools \ S : S \in {{}, {"pdbcopy"}, {"sevenzip"}, {"makensis", "pandoc"}, Tools}}

---------------------------------------------------------------------------
(* The run: load, merge, validate.                                         *)

\* last: op, the operation; file, args, cb, cp, its inputs (args stays the
\* command line of the run once apply_args has taken it); result and calls,
\* what validate returned and the library calls it made; prev, the
\* operation before it with its switches.
NoPrev == [op |-> "none", cb |-> FALSE, cp |-> FALSE]
Op(name) ==
    [op |-> name, file |-> NoFile, args |-> NoArgs, cb |-> FALSE, cp |-> FALSE,
     result |-> Ok, calls |-> <<>>, prev |-> NoPrev]

InitRun ==
    /\ cfg = Config_default
    /\ pre = Config_default
    /\ phase = "Start"
    /\ last = Op("start")

Init ==
    /\ InitRun
    /\ fs \in FsStates
    /\ envvar \in EnvVarStates
    /\ onpath \in OnPathStates

InitMerge ==
    /\ InitRun
    /\ fs = [p \in DiskPaths |-> NoEntry]
    /\ envvar = "unset"
    /\ onpath = {}

\* let mut config = Config::from_file(path); panics on a bad file
FromFile(Files) ==
    /\ phase = "Start"
    /\ \E file \in Files :
         LET r == from_file(file)
         IN /\ cfg' = r.config
            /\ phase' = IF r.ok THEN "Loaded" ELSE "Aborted"
            /\ last' = [Op("from_file") EXCEPT !.file = file]
    /\ pre' = cfg
    /\ UNCHANGED <<fs, envvar, onpath>>

\* config.apply_args(&args); parse_version aborts on a malformed version
ApplyArgs(ArgSet) ==
    /\ phase = "Loaded"
    /\ \E args \in ArgSet :
         /\ last' = [Op("apply_args") EXCEPT !.args = args]
         /\ IF parse_version(args.version).ok
            THEN cfg' = apply_args(cfg, args) /\ phase' = "Merged"
            ELSE cfg' = cfg /\ phase' = "Aborted"
    /\ pre' = cfg
    /\ UNCHANGED <<fs, envvar, onpath>>

\* config.validate(check_binaries, check_paths)
Validate ==
    /\ phase \in {"Merged", "Validated"}
    /\ \E cb \in BOOLEAN, cp \in BOOLEAN :
         LET r == validate(cfg, cb, cp)
         IN /\ cfg' = r.cfg
            /\ phase' = IF r.result = Ok THEN "Validated" ELSE "Failed"
            /\ last' = [Op("validate") EXCEPT
                          !.cb = cb, !.cp = cp, !.args = last.args,
                          !.result = r.result, !.calls = r.calls,
                          !.prev = [op |-> last.op, cb |-> last.cb, cp |-> last.cp]]
    /\ pre' = cfg
    /\ UNCHANGED <<fs, envvar, onpath>>

FromFileV == FromFile(FilesV)
ApplyArgsV == ApplyArgs(ArgsV)
FromFileM == FromFile(FilesM)
ApplyArgsM == ApplyArgs(ArgsM)

Next == FromFileV \/ ApplyArgsV \/ Validate
NextMerge == FromFileM \/ ApplyArgsM

Spec == Init /\ [][Next]_vars
SpecMerge == InitMerge /\ [][NextMerge]_vars

---------------------------------------------------------------------------
(* Properties.                                                             *)

Merged == last.op = "apply_args" /\ phase = "Merged"
Validated == last.op = "validate"
Derived == parse_version(last.args.version).v

\* C1: after apply_args, obs_version.beta is the CLI beta whenever one is
\* supplied (0 included) and the beta derived from the version string
\* otherwise; obs_version.rc likewise; the two are decided independently.
C1_QualifiersFieldByField ==
    Merged =>
        /\ cfg.obs_version.beta =
              (IF IsSome(last.args.beta) THEN Unwrap(last.args.beta) ELSE Derived[4])
        /\ cfg.obs_version.rc =
              (IF IsSome(last.args.rc) THEN Unwrap(last.args.rc) ELSE Derived[5])

\* a version string carrying a beta qualifier, CLI beta 0 and CLI rc given:
\* beta is 0, not the string's, and rc is the CLI's
C1_Witness ==
    /\ Merged
    /\ Derived[4] = MaxNum
    /\ last.args.beta = Some(0)
    /\ last.args.rc = Some(1)
    /\ cfg.obs_version.beta = 0
    /\ cfg.obs_version.rc = 1

\* the checks of validate, in the order of the code
CheckOrder == <<"pdbcopy", "makensis", "sevenzip", "pandoc", "key", "input_dir", "previous_dir">>
CheckIndex(c) == CHOOSE i \in 1..Len(CheckOrder) : CheckOrder[i] = c

\* would check c, run alone on the configuration before the call, fail?
WouldFail(c) ==
    CASE c \in Tools ->
            last.cb /\ ~check_binary_path(pre.env[ToolField[c]], c).ok
      [] c = "key" ->
            /\ ~pre.package.updater.skip_sign
            /\ env_var_is_err
            /\ ~metadata_ok(pre.package.updater.private_key)
      [] c = "input_dir" -> last.cp /\ ~canonicalize(pre.env.input_dir).ok
      [] c = "previous_dir" -> last.cp /\ ~canonicalize(pre.env.previous_dir).ok

ErrorOf(c) ==
    CASE c \in Tools -> BinaryNotFound[c]
      [] c = "key" -> PrivateKeyNotFound
      [] c = "input_dir" -> InputDirError
      [] c = "previous_dir" -> PreviousDirError

\* the check a library call belongs to
CheckOfCall(call) ==
    CASE call \in {"env::var", "fs::metadata"} -> "key"
      [] call = "canonicalize input_dir" -> "input_dir"
      [] call = "canonicalize previous_dir" -> "previous_dir"
      [] OTHER -> CHOOSE t \in Tools : ToolField[t] = call

Failing == {i \in 1..Len(CheckOrder) : WouldFail(CheckOrder[i])}
FirstFailing == CHOOSE i \in Failing : \A j \in Failing : i <= j

\* C2: validate runs its checks in the order pdbcopy, makensis, sevenzip,
\* pandoc (if check_binaries), signing key (if not skip_sign), directories
\* input then previous (if check_paths); the result is the error of the
\* first check in this order that fails, Ok if none does, and no call of a
\* check ordered after the failing one is made.
C2_FailFastOrder ==
    Validated =>
        /\ \A a, b \in 1..Len(last.calls) :
              a < b => CheckIndex(CheckOfCall(last.calls[a]))
                          <= CheckIndex(CheckOfCall(last.calls[b]))
        /\ IF Failing = {} THEN last.result = Ok
           ELSE /\ last.result = ErrorOf(CheckOrder[FirstFailing])
                /\ \A a \in 1..Len(last.calls) :
                      CheckIndex(CheckOfCall(last.calls[a])) <= FirstFailing

\* several checks would fail, in all three groups; the earliest wins
C2_Witness ==
    /\ Validated
    /\ WouldFail("makensis") /\ WouldFail("pandoc")
    /\ WouldFail("key") /\ WouldFail("input_dir") /\ WouldFail("previous_dir")
    /\ ~WouldFail("pdbcopy")
    /\ last.result = BinaryNotFound["makensis"]

IsBinaryError == \E t \in Tools : last.result = BinaryNotFound[t]

\* C3: a run without --skip-manifest-signing performs the signing-key
\* check (variable unset and key file missing: "Private key not found",
\* unless a binary check failed first), and a run with the flag never
\* fails for a missing signing key.
C3_KeyCheckedUnlessSkipped ==
    Validated =>
        /\ (/\ ~last.args.skip_manifest_signing
            /\ envvar = "unset"
            /\ ~metadata_ok(pre.package.updater.private_key)
            /\ ~IsBinaryError)
              => last.result = PrivateKeyNotFound
        /\ last.args.skip_manifest_signing => last.result # PrivateKeyNotFound

\* C4 as stated: with the variable populated validate never returns the
\* signing-key error, and the key file is looked at only when skip_sign is
\* false and the variable is absent.
C4_PopulatedEnvSkipsFile ==
    Validated =>
        /\ envvar # "unset" => last.result # PrivateKeyNotFound
        /\ (\E i \in 1..Len(last.calls) : last.calls[i] = "fs::metadata")
              => ~pre.package.updater.skip_sign /\ envvar = "unset"

\* C4 amended: with the variable set to a valid Unicode value validate
\* never returns the signing-key error; the key file is looked at only
\* when skip_sign is false and env::var fails (variable absent or its value
\* not valid Unicode).
C4_ReadableEnvSkipsFile ==
    Validated =>
        /\ envvar = "unicode" => last.result # PrivateKeyNotFound
        /\ (\E i \in 1..Len(last.calls) : last.calls[i] = "fs::metadata")
              => ~pre.package.updater.skip_sign /\ envvar # "unicode"

\* signing enabled, the variable readable, the key file missing: the key
\* check ran (env::var was called) and validate went on to succeed
C4_Witness ==
    /\ Validated
    /\ envvar = "unicode"
    /\ ~pre.package.updater.skip_sign
    /\ ~metadata_ok(pre.package.updater.private_key)
    /\ \E i \in 1..Len(last.calls) : last.calls[i] = "env::var"
    /\ last.result = Ok

C6_CodesignSkipPropagated ==
    Merged =>
        /\ cfg.prepare.codesign.skip_sign = last.args.skip_codesigning
        /\ cfg.package.installer.skip_sign = last.args.skip_codesigning

\* the file had the two flags different from each other
C6_Witness ==
    /\ Merged
    /\ pre.prepare.codesign.skip_sign /\ ~pre.package.installer.skip_sign
    /\ ~last.args.skip_codesigning
    /\ ~cfg.prepare.codesign.skip_sign /\ ~cfg.package.installer.skip_sign

\* C7: a configuration loaded from a file without a branch name (no env
\* section, or an env section without the branch key) has branch "stable".
C7_DefaultBranchStable ==
    (/\ last.op = "from_file" /\ phase = "Loaded"
     /\ (~IsSome(last.file.doc.env) \/ ~IsSome(Unwrap(last.file.doc.env).branch)))
        => cfg.env.branch = "stable"

\* C8: validate never changes env.output_dir; when it returns Ok with
\* check_paths, input_dir and previous_dir are the canonical forms of the
\* values they had before the call.
C8_OutputDirUntouched ==
    Validated =>
        /\ cfg.env.output_dir = pre.env.output_dir
        /\ (last.result = Ok /\ last.cp) =>
              /\ canonicalize(pre.env.input_dir).ok
              /\ cfg.env.input_dir = canonicalize(pre.env.input_dir).path
              /\ canonicalize(pre.env.previous_dir).ok
              /\ cfg.env.previous_dir = canonicalize(pre.env.previous_dir).path

\* both directories were rewritten, and output_dir, though it exists and
\* is not in canonical form, was not
C8_Witness ==
    /\ Validated /\ last.result = Ok /\ last.cp
    /\ cfg.env.input_dir # pre.env.input_dir
    /\ cfg.env.previous_dir # pre.env.previous_dir
    /\ canonicalize(pre.env.output_dir).ok
    /\ canonicalize(pre.env.output_dir).path # pre.env.output_dir
    /\ cfg.env.output_dir = pre.env.output_dir

SameSwitchesAgain ==
    /\ Validated
    /\ last.prev.op = "validate"
    /\ last.prev.cp
    /\ last.cb = last.prev.cb /\ last.cp = last.prev.cp

\* C9: validate run again with the same switches after an Ok run with
\* check_paths returns Ok and leaves input_dir and previous_dir as the
\* first run left them.
C9_CanonicalizeIdempotent ==
    SameSwitchesAgain =>
        /\ last.result = Ok
        /\ cfg.env.input_dir = pre.env.input_dir
        /\ cfg.env.previous_dir = pre.env.previous_dir

\* a second run, binaries checked too, over an input directory that the
\* first run had to resolve through a link and a previous directory with
\* another canonical path
C9_Witness ==
    /\ SameSwitchesAgain /\ last.cb
    /\ last.result = Ok
    /\ cfg.env.input_dir # cfg.env.previous_dir
    /\ last.args.new = Some("new") /\ cfg.env.input_dir # "new"
    /\ last.args.old = Some("old")

\* what the configuration must be after a failed validate: the fields of
\* the checks run before the failing one resolved, all others as before
FailedAt == CHOOSE i \in 1..Len(CheckOrder) : ErrorOf(CheckOrder[i]) = last.result
ExpectedAfterFailure ==
    [pre EXCEPT
       !.env = [f \in DOMAIN pre.env |->
          IF \E t \in Tools : ToolField[t] = f
          THEN LET t == CHOOSE t \in Tools : ToolField[t] = f
               IN IF last.cb /\ CheckIndex(t) < FailedAt
                  THEN check_binary_path(pre.env[f], t).path
                  ELSE pre.env[f]
          ELSE IF f = "input_dir" /\ CheckIndex("input_dir") < FailedAt
          THEN canonicalize(pre.env.input_dir).path
          ELSE pre.env[f]]]

\* C10: when validate returns an error, every field handled by a check
\* that ran before the failing one holds its resolved value and every
\* other field is unchanged.
C10_MutatedUpToFailure ==
    (Validated /\ last.result # Ok) => cfg = ExpectedAfterFailure

\* "Previous dir error" after the binaries and the input directory were
\* rewritten
C10_Witness ==
    /\ Validated /\ last.cb
    /\ last.result = PreviousDirError
    /\ cfg.env.input_dir # pre.env.input_dir
    /\ cfg.env.pdbcopy_path # pre.env.pdbcopy_path
    /\ cfg.env.previous_dir = pre.env.previous_dir

=============================================================================
